---- MODULE Spec2Model ----
(***************************************************************************)
(* Model of limbus.core.pipeline.Pipeline: the scheduler that launches the *)
(* loop of every registered component, gates the loops with an             *)
(* asyncio.Event (resume), stops them with another (stop) and counts the   *)
(* iterations they execute.                                                *)
(*                                                                         *)
(* The event loop is single threaded and cooperative: code between two     *)
(* awaits that really suspend runs atomically, so every synchronous method *)
(* of Pipeline is one action.  async_run is two actions, split at the only *)
(* place where it suspends (asyncio.gather).  asyncio.Event.wait() returns *)
(* at once when the event is set; otherwise the caller is parked on a      *)
(* future which Event.set() resolves, and the caller continues, without    *)
(* looking at the event again, when the loop schedules it ("woken").       *)
(*                                                                         *)
(* The loop of a component (limbus.core.component) is not part of the      *)
(* modelled file; it is modelled from its contract: compute the stopping   *)
(* iteration, then repeat before-hook, one unit of work, after-hook until  *)
(* the component is marked FORCED_STOP or STOPPED_AT_ITER or ends by       *)
(* itself.                                                                 *)
(*                                                                         *)
(* One run is in progress at a time (run() is a blocking wrapper).         *)
(***************************************************************************)
EXTENDS Integers, FiniteSets, Sequences, TLC

\* ---- bounds --------------------------------------------------------------
\* largest Component.counter a component is run to
MaxCount == 2
\* largest iters argument of async_run
MaxIters == 1

\* the identities of the components that exist (Pipeline._nodes is a set of them)
Components == {"c1", "c2"}
\* values of the iters argument of async_run (an int: 0 is "until the end")
Iters == (-1)..MaxIters

PipelineStates ==
    {"CREATED", "INITIALIZING", "RUNNING", "PAUSED", "ENDED", "FORCED_STOP", "ERROR"}
ComponentStates ==
    {"INITIALIZED", "READY", "PAUSED", "RUNNING", "STOPPED", "FORCED_STOP", "STOPPED_AT_ITER"}
\* position of the loop of a component
Positions == {"idle", "start", "before", "waiting", "woken", "work", "after", "done"}

VARIABLES
    nodes,              \* Pipeline._nodes
    resume_event,       \* Pipeline._resume_event (is_set)
    stop_event,         \* Pipeline._stop_event (is_set)
    state,              \* Pipeline._state._state
    counter,            \* Pipeline._counter
    min_iters,          \* Pipeline._min_number_of_iters_to_run
    run_pc,             \* "idle", or "gather" while async_run awaits its tasks
    tasks,              \* the components whose loops the current run awaits
    result,             \* value returned by the last async_run ("NONE" before)
    pipeline_set,       \* per component: set_pipeline(self) was called
    comp_counter,       \* per component: Component.counter
    comp_state,         \* per component: Component.state
    stopping_iteration, \* per component: Component.stopping_iteration
    pc,                 \* per component: position of its loop
    last,               \* history: the last operator call, i.e. its name, the
                        \* pipeline state it found and the number of
                        \* _PipelineState.__call__ transitions it made
    stop_requested      \* history: stop() has been called at some time

pvars == <<nodes, resume_event, stop_event, state, counter, min_iters>>
rvars == <<run_pc, tasks, result>>
cvars == <<pipeline_set, comp_counter, comp_state, stopping_iteration, pc>>
vars == <<nodes, resume_event, stop_event, state, counter, min_iters,
          run_pc, tasks, result,
          pipeline_set, comp_counter, comp_state, stopping_iteration, pc,
          last, stop_requested>>

Max(a, b) == IF a >= b THEN a ELSE b

\* ---- _PipelineState and the synchronous part of Pipeline ------------------
\* The part of the pipeline the state-changing methods touch, as a record;
\* logged counts the calls of _PipelineState.__call__ (one log line each).
Cur ==
    [state |-> state, resume_event |-> resume_event,
     stop_event |-> stop_event, logged |-> 0]

\* _PipelineState.__call__: set the state and log it
SetState(p, s) == [p EXCEPT !.state = s, !.logged = @ + 1]

\* resume transitioning to RUNNING without setting the event
ResumeForgetsSet(p) == IF ~p.resume_event THEN SetState(p, "RUNNING") ELSE p

\* Pipeline.resume
Resume(p) ==
    IF ~p.resume_event
    THEN [SetState(p, "RUNNING") EXCEPT !.resume_event = TRUE]
    ELSE p

\* pause without the is_set() test: transitions on every call
PauseAlways(p) == [SetState(p, "PAUSED") EXCEPT !.resume_event = FALSE]

\* Pipeline.pause
Pause(p) ==
    IF p.resume_event
    THEN [SetState(p, "PAUSED") EXCEPT !.resume_event = FALSE]
    ELSE p

\* stop transitioning to FORCED_STOP without setting the stop event
StopStateOnly(p) == SetState(Resume(p), "FORCED_STOP")

\* stop without the leading resume()
StopNoResume(p) == SetState([p EXCEPT !.stop_event = TRUE], "FORCED_STOP")

\* Pipeline.stop
Stop(p) ==
    SetState([Resume(p) EXCEPT !.stop_event = TRUE], "FORCED_STOP")

\* asyncio.Event.set(): every future parked in wait() is resolved
EventSet(was_set, pcs) ==
    IF was_set THEN pcs
    ELSE [c \in Components |-> IF pcs[c] = "waiting" THEN "woken" ELSE pcs[c]]

\* the stopping iteration without the iterations already completed
stopping_iteration_from_zero(c) == IF min_iters > 0 THEN min_iters ELSE 0

\* Pipeline.get_component_stopping_iteration
get_component_stopping_iteration(c) ==
    IF min_iters > 0 THEN comp_counter[c] + min_iters ELSE 0

\* the head of async_run without the clear of the stop event
RunBeginNoClear(p) == SetState(p, "INITIALIZING")

\* the head of async_run: clear the stop event, transition to INITIALIZING
RunBegin(p) == SetState([p EXCEPT !.stop_event = FALSE], "INITIALIZING")

\* the tail of async_run without ERROR in the list of final states
RunEndOverwritesError(p) ==
    IF p.state = "FORCED_STOP" THEN p ELSE SetState(p, "ENDED")

\* the tail of async_run testing for the states that are not final
RunEndOnlyFromRunning(p) ==
    IF p.state = "RUNNING" THEN SetState(p, "ENDED") ELSE p

\* the tail of async_run: keep FORCED_STOP and ERROR, otherwise ENDED
RunEnd(p) ==
    IF p.state \in {"FORCED_STOP", "ERROR"} THEN p ELSE SetState(p, "ENDED")

Apply(p, op) ==
    /\ state' = p.state
    /\ resume_event' = p.resume_event
    /\ stop_event' = p.stop_event
    /\ last' = [op |-> op, was |-> state, logged |-> p.logged]

TypeOK ==
    /\ nodes \subseteq Components
    /\ resume_event \in BOOLEAN
    /\ stop_event \in BOOLEAN
    /\ state \in PipelineStates
    /\ counter \in 0..MaxCount
    /\ min_iters \in Iters
    /\ run_pc \in {"idle", "gather"}
    /\ tasks \subseteq Components
    /\ result \in PipelineStates \cup {"NONE"}
    /\ pipeline_set \in [Components -> BOOLEAN]
    /\ comp_counter \in [Components -> 0..MaxCount]
    /\ comp_state \in [Components -> ComponentStates]
    /\ stopping_iteration \in [Components -> 0..(MaxCount + MaxIters)]
    /\ pc \in [Components -> Positions]
    /\ last \in [op : {"none", "add_nodes", "pause", "resume", "stop", "async_run", "return"},
                 was : PipelineStates, logged : 0..3]
    /\ stop_requested \in BOOLEAN

\* Pipeline.__init__ and freshly built components
Init ==
    /\ nodes = {}
    /\ resume_event = FALSE
    /\ stop_event = FALSE
    /\ state = "CREATED"
    /\ counter = 0
    /\ min_iters = 0
    /\ run_pc = "idle"
    /\ tasks = {}
    /\ result = "NONE"
    /\ pipeline_set = [c \in Components |-> FALSE]
    /\ comp_counter = [c \in Components |-> 0]
    /\ comp_state = [c \in Components |-> "INITIALIZED"]
    /\ stopping_iteration = [c \in Components |-> 0]
    /\ pc = [c \in Components |-> "idle"]
    /\ last = [op |-> "none", was |-> "CREATED", logged |-> 0]
    /\ stop_requested = FALSE

\* ---- operator calls ------------------------------------------------------
\* add_nodes binding the added components to the pipeline at once
add_nodes_binds(components) ==
    /\ nodes' = nodes \cup components
    /\ pipeline_set' = [c \in Components |-> pipeline_set[c] \/ c \in components]
    /\ last' = [op |-> "add_nodes", was |-> state, logged |-> 0]
    /\ UNCHANGED <<resume_event, stop_event, state, counter, min_iters>>
    /\ UNCHANGED <<rvars, comp_counter, comp_state, stopping_iteration, pc, stop_requested>>

\* Pipeline.add_nodes
add_nodes(components) ==
    /\ nodes' = nodes \cup components
    /\ last' = [op |-> "add_nodes", was |-> state, logged |-> 0]
    /\ UNCHANGED <<resume_event, stop_event, state, counter, min_iters>>
    /\ UNCHANGED <<rvars, cvars, stop_requested>>

pause ==
    /\ Apply(Pause(Cur), "pause")
    /\ UNCHANGED <<nodes, counter, min_iters, rvars, cvars, stop_requested>>

resume ==
    /\ Apply(Resume(Cur), "resume")
    /\ pc' = EventSet(resume_event, pc)
    /\ UNCHANGED <<nodes, counter, min_iters, rvars, stop_requested>>
    /\ UNCHANGED <<pipeline_set, comp_counter, comp_state, stopping_iteration>>

stop ==
    /\ Apply(Stop(Cur), "stop")
    /\ stop_requested' = TRUE
    /\ pc' = EventSet(resume_event, pc)
    /\ UNCHANGED <<nodes, counter, min_iters, rvars>>
    /\ UNCHANGED <<pipeline_set, comp_counter, comp_state, stopping_iteration>>

\* async_run up to "await asyncio.gather(*tasks)"; with no nodes, to its return
async_run(iters) ==
    /\ run_pc = "idle"
    /\ min_iters' = iters
    /\ LET p1 == RunBegin(Cur)
           p2 == Resume(p1)
       IN IF nodes = {}
          THEN LET p3 == RunEnd(SetState(p2, "ERROR"))
               IN /\ Apply(p3, "async_run")
                  /\ result' = p3.state
                  /\ run_pc' = "idle"
                  /\ tasks' = {}
                  /\ pc' = EventSet(p1.resume_event, pc)
                  /\ UNCHANGED pipeline_set
          ELSE /\ Apply(p2, "async_run")
               /\ run_pc' = "gather"
               /\ tasks' = nodes
               /\ pipeline_set' = [c \in Components |-> pipeline_set[c] \/ c \in nodes]
               /\ pc' = [c \in Components |-> IF c \in nodes THEN "start" ELSE pc[c]]
               /\ UNCHANGED result
    /\ UNCHANGED <<nodes, counter, comp_counter, comp_state, stopping_iteration>>
    /\ UNCHANGED stop_requested

\* async_run from the completion of gather to its return.  The second gather,
\* over the tasks get_task_if_exists finds, has nothing to wait for: the
\* modelled loops create no further task.
async_run_return ==
    /\ run_pc = "gather"
    /\ \A c \in tasks : pc[c] = "done"
    /\ LET p == RunEnd(Cur)
       IN /\ Apply(p, "return")
          /\ result' = p.state
    /\ run_pc' = "idle"
    /\ tasks' = {}
    /\ UNCHANGED <<nodes, counter, min_iters, cvars, stop_requested>>

\* ---- the loop of a component ---------------------------------------------
\* Component.__call__ entry: the stopping iteration is computed once per run
component_start(c) ==
    /\ pc[c] = "start"
    /\ stopping_iteration' = [stopping_iteration EXCEPT ![c] = get_component_stopping_iteration(c)]
    /\ pc' = [pc EXCEPT ![c] = "before"]
    /\ UNCHANGED <<pvars, rvars, pipeline_set, comp_counter, comp_state, last, stop_requested>>

\* Pipeline.before_component_hook up to the return or the suspension of wait()
before_component_hook(c) ==
    /\ pc[c] = "before"
    /\ IF ~resume_event
       THEN /\ comp_state' = [comp_state EXCEPT ![c] = "PAUSED"]
            /\ pc' = [pc EXCEPT ![c] = "waiting"]
       ELSE /\ comp_state' = [comp_state EXCEPT ![c] = "READY"]
            /\ pc' = [pc EXCEPT ![c] = "work"]
    /\ UNCHANGED <<pvars, rvars, pipeline_set, comp_counter, stopping_iteration, last, stop_requested>>

\* before_component_hook without set_state(READY) after the wait
before_component_hook_wake_not_ready(c) ==
    /\ pc[c] = "woken"
    /\ pc' = [pc EXCEPT ![c] = "work"]
    /\ UNCHANGED <<pvars, rvars, pipeline_set, comp_counter, comp_state>>
    /\ UNCHANGED <<stopping_iteration, last, stop_requested>>

\* Pipeline.before_component_hook after wait(): the woken task is scheduled
before_component_hook_wake(c) ==
    /\ pc[c] = "woken"
    /\ comp_state' = [comp_state EXCEPT ![c] = "READY"]
    /\ pc' = [pc EXCEPT ![c] = "work"]
    /\ UNCHANGED <<pvars, rvars, pipeline_set, comp_counter, stopping_iteration, last, stop_requested>>

\* one unit of work of the component
component_work(c) ==
    /\ pc[c] = "work"
    /\ comp_counter[c] < MaxCount
    /\ comp_counter' = [comp_counter EXCEPT ![c] = @ + 1]
    /\ comp_state' = [comp_state EXCEPT ![c] = "RUNNING"]
    /\ pc' = [pc EXCEPT ![c] = "after"]
    /\ UNCHANGED <<pvars, rvars, pipeline_set, stopping_iteration, last, stop_requested>>

\* the component ends its loop by itself
component_end(c) ==
    /\ pc[c] = "work"
    /\ comp_state' = [comp_state EXCEPT ![c] = "STOPPED"]
    /\ pc' = [pc EXCEPT ![c] = "done"]
    /\ UNCHANGED <<pvars, rvars, pipeline_set, comp_counter, stopping_iteration, last, stop_requested>>

\* after_component_hook testing the iteration bound before the stop event
AfterStateBoundFirst(c) ==
    IF min_iters # 0 /\ comp_counter[c] >= stopping_iteration[c]
    THEN "STOPPED_AT_ITER"
    ELSE IF stop_event THEN "FORCED_STOP" ELSE comp_state[c]

\* after_component_hook without the test for an unbounded run
AfterStateNoZeroTest(c) ==
    IF stop_event THEN "FORCED_STOP"
    ELSE IF comp_counter[c] >= stopping_iteration[c]
         THEN "STOPPED_AT_ITER"
         ELSE comp_state[c]

\* Pipeline.after_component_hook: the component state it leaves
AfterState(c) ==
    IF stop_event THEN "FORCED_STOP"
    ELSE IF min_iters # 0 /\ comp_counter[c] >= stopping_iteration[c]
         THEN "STOPPED_AT_ITER"
         ELSE comp_state[c]

\* after_component_hook assigning the component counter instead of the max
AfterCounterAssign(c) ==
    IF stop_event THEN counter ELSE comp_counter[c]

\* after_component_hook updating the counter before the stop test
AfterCounterBeforeStop(c) == Max(counter, comp_counter[c])

\* after_component_hook counting the calls instead of taking the max
AfterCounterIncrement(c) ==
    IF stop_event THEN counter ELSE counter + 1

\* Pipeline.after_component_hook: the pipeline counter it leaves
AfterCounter(c) ==
    IF stop_event THEN counter ELSE Max(counter, comp_counter[c])

\* the loop test of the component: it leaves its loop once marked stopped
component_is_stopped(s) == s \in {"FORCED_STOP", "STOPPED_AT_ITER"}

\* Pipeline.after_component_hook, and the loop test of the component after it
after_component_hook(c) ==
    /\ pc[c] = "after"
    /\ comp_state' = [comp_state EXCEPT ![c] = AfterState(c)]
    /\ counter' = AfterCounter(c)
    /\ pc' = [pc EXCEPT ![c] =
                IF component_is_stopped(AfterState(c)) THEN "done" ELSE "before"]
    /\ UNCHANGED <<nodes, resume_event, stop_event, state, min_iters>>
    /\ UNCHANGED <<rvars, pipeline_set, comp_counter, stopping_iteration, last, stop_requested>>

component_step(c) ==
    \/ component_start(c)
    \/ before_component_hook(c)
    \/ before_component_hook_wake(c)
    \/ component_work(c)
    \/ component_end(c)
    \/ after_component_hook(c)

Next ==
    \/ \E components \in SUBSET Components : add_nodes(components)
    \/ pause
    \/ resume
    \/ stop
    \/ \E iters \in Iters : async_run(iters)
    \/ async_run_return
    \/ \E c \in Components : component_start(c)
    \/ \E c \in Components : before_component_hook(c)
    \/ \E c \in Components : before_component_hook_wake(c)
    \/ \E c \in Components : component_work(c)
    \/ \E c \in Components : component_end(c)
    \/ \E c \in Components : after_component_hook(c)

Spec == Init /\ [][Next]_vars

\* The scheduling the event loop gives: every runnable task is run, and
\* async_run continues once its tasks are done.  Operator calls are not forced.
LiveSpec ==
    /\ Init /\ [][Next]_vars
    /\ \A c \in Components : WF_vars(component_step(c))
    /\ WF_vars(async_run_return)

\* ---- properties ----------------------------------------------------------
Launched(c) == run_pc = "gather" /\ c \in tasks

\* C1: when stop() returns, whatever state it was called in, the resume-gate
\* is open, the stop-flag is set and the pipeline state is FORCED_STOP.
C1_StopPostcondition ==
    [][stop => (resume_event' /\ stop_event' /\ state' = "FORCED_STOP")]_vars

\* stop() has just returned from a call made while PAUSED with the gate closed
C1_Witness ==
    /\ last.op = "stop" /\ last.was = "PAUSED" /\ last.logged = 2
    /\ resume_event /\ stop_event /\ state = "FORCED_STOP"

\* C2: once stop() was called during a run, every component blocked at the
\* before-hook is released and the run returns, whatever the operator calls
\* next (claim as stated; refuted under LiveSpec by stop() followed by pause()).
C2_StopNeverDeadlocks ==
    /\ (run_pc = "gather" /\ stop_event) ~> (run_pc = "idle")
    /\ \A c \in Components :
          (Launched(c) /\ stop_event /\ pc[c] = "waiting") ~> (pc[c] # "waiting")

\* C3: a component leaves before_component_hook (and is set READY) only while
\* the resume-gate is open (claim as stated; refuted by resume() then pause()
\* before the woken component is scheduled).
C3_NoPassWhileGateClosed ==
    [][\A c \in Components :
          ((before_component_hook(c) \/ before_component_hook_wake(c)) /\ pc'[c] = "work")
              => resume_event]_vars

\* C4 (as stated): once stop() has been requested, at any earlier time, the
\* next after_component_hook call of every component marks it FORCED_STOP.
C4_AsStated ==
    [][\A c \in Components :
          (after_component_hook(c) /\ stop_requested) => comp_state'[c] = "FORCED_STOP"]_vars

\* C4 (amended): while the stop-flag is set, i.e. stop() was requested and no
\* later async_run call has cleared it, every after_component_hook call marks
\* its component FORCED_STOP, whatever its count and the iteration bound.
C4_StopMarksForcedStop ==
    [][\A c \in Components :
          (after_component_hook(c) /\ stop_event) => comp_state'[c] = "FORCED_STOP"]_vars

\* a component was marked FORCED_STOP at the iteration its bound is reached
C4_Witness ==
    \E c \in Components :
        /\ Launched(c) /\ stop_event /\ min_iters > 0
        /\ pc[c] = "done" /\ comp_state[c] = "FORCED_STOP"
        /\ comp_counter[c] >= stopping_iteration[c]

\* C5: after a stop() during a run the pipeline state is FORCED_STOP until the
\* run returns, and the run returns FORCED_STOP (claim as stated; refuted by
\* stop() followed by pause()).
C5_ForcedStopTerminal ==
    /\ []((run_pc = "gather" /\ stop_event) => state = "FORCED_STOP")
    /\ [][(async_run_return /\ stop_event) => result' = "FORCED_STOP"]_vars

\* C6: async_run with no registered component returns ERROR, launches no
\* component loop, does not wait, and leaves the pipeline state ERROR.
C6_NoComponentsError ==
    [][\A iters \in Iters :
          (async_run(iters) /\ nodes = {}) =>
              /\ result' = "ERROR" /\ state' = "ERROR"
              /\ run_pc' = "idle" /\ tasks' = {}
              /\ \A c \in Components : pc'[c] \in {"idle", "done"}]_vars

\* async_run has just returned ERROR from an empty pipeline
C6_Witness ==
    /\ last.op = "async_run" /\ nodes = {} /\ run_pc = "idle"
    /\ result = "ERROR" /\ state = "ERROR"

\* C7: a run with components returns only when every loop it launched has
\* terminated; it returns FORCED_STOP or ERROR unchanged and otherwise
\* transitions to ENDED and returns ENDED.
C7_RunReturn ==
    /\ [](run_pc = "idle" => \A c \in Components : pc[c] \in {"idle", "done"})
    /\ [][async_run_return =>
            /\ tasks # {} /\ \A c \in tasks : pc[c] = "done"
            /\ result' = state'
            /\ (state \in {"FORCED_STOP", "ERROR"} => state' = state /\ last'.logged = 0)
            /\ (state \notin {"FORCED_STOP", "ERROR"} => state' = "ENDED")]_vars

\* a run has just returned ENDED from the state PAUSED
C7_Witness ==
    /\ last.op = "return" /\ last.was = "PAUSED"
    /\ result = "ENDED" /\ state = "ENDED"
    /\ \E c \in Components : pc[c] = "done"

\* C8: the pipeline counter never decreases, within a run and across runs.
C8_CounterMonotonic == [][counter' >= counter]_vars

\* a component behind the counter has passed the after-hook with the stop-flag unset
C8_Witness ==
    \E c \in Components :
        /\ pc[c] = "before" /\ comp_state[c] = "RUNNING"
        /\ comp_counter[c] > 0 /\ comp_counter[c] < counter

\* C9: pause() and resume() are idempotent: applied twice from any reachable
\* state they give the state, the gate and the number of transitions of one
\* application, and a call that directly follows a call of the same method
\* changes neither the state nor the gate and makes no transition.
C9_Idempotent ==
    /\ [](Pause(Pause(Cur)) = Pause(Cur) /\ Resume(Resume(Cur)) = Resume(Cur))
    /\ [][(pause /\ last.op = "pause") =>
            (state' = state /\ resume_event' = resume_event /\ last'.logged = 0)]_vars
    /\ [][(resume /\ last.op = "resume") =>
            (state' = state /\ resume_event' = resume_event /\ last'.logged = 0)]_vars

\* pause() has just been called a second time in a row
C9_Witness ==
    /\ last.op = "pause" /\ last.was = "PAUSED" /\ last.logged = 0
    /\ state = "PAUSED" /\ ~resume_event

C11_UnboundedRun ==
    /\ [](min_iters = 0 => \A c \in Components : get_component_stopping_iteration(c) = 0)
    /\ [][\A c \in Components :
            (component_start(c) /\ min_iters = 0) => stopping_iteration'[c] = 0]_vars
    /\ [][\A c \in Components :
            (after_component_hook(c) /\ min_iters = 0) =>
                comp_state'[c] # "STOPPED_AT_ITER"]_vars

\* in an unbounded run that follows a bounded one (a component not yet
\* scheduled still shows it), a component with iterations completed has
\* passed the after-hook and loops on
C11_Witness ==
    \E c \in Components :
        /\ Launched(c) /\ min_iters = 0 /\ ~stop_event
        /\ \E d \in tasks :
              pc[d] = "start" /\ comp_state[d] = "STOPPED_AT_ITER" /\ stopping_iteration[d] > 0
        /\ result # "NONE"
        /\ pc[c] = "before" /\ comp_state[c] = "RUNNING"
        /\ comp_counter[c] > 0 /\ stopping_iteration[c] = 0

\* C12: after pause() during a run and a later resume(), every component
\* blocked in before_component_hook is released and proceeds past it, and the
\* pipeline state goes RUNNING, PAUSED, RUNNING (claim as stated; the release
\* holds, the state sequence is refuted by a run that starts with the gate
\* already open and so is INITIALIZING when pause() is called).
C12_PauseResumeAsStated ==
    /\ [][(resume /\ ~resume_event) =>
            \A c \in Components : pc[c] = "waiting" => pc'[c] = "woken"]_vars
    /\ \A c \in Components : (pc[c] = "woken") ~> (pc[c] = "work")
    /\ [][(pause /\ run_pc = "gather" /\ resume_event) =>
            (state = "RUNNING" /\ state' = "PAUSED")]_vars
    /\ [][(resume /\ run_pc = "gather" /\ ~resume_event) =>
            (state = "PAUSED" /\ state' = "RUNNING")]_vars

\* C13: every async_run call reaches its wait (or its ERROR report) with the
\* resume-gate open and after the transitions INITIALIZING and RUNNING (claim
\* as stated; refuted by a run that starts with the gate already open).
C13_RunReachesRunning ==
    [][\A iters \in Iters :
          async_run(iters) =>
              /\ resume_event'
              /\ nodes # {} => (state' = "RUNNING" /\ last'.logged = 2)
              /\ nodes = {} => last'.logged = 3]_vars

\* C14: the stop-flag is unset until stop() is called, is set only by
\* stop() and cleared only by async_run, which starts with the flag cleared
\* and min_iters equal to its argument.
C14_StopFlagLifecycle ==
    /\ [](~stop_requested => ~stop_event)
    /\ [][(~stop_event /\ stop_event') => stop]_vars
    /\ [][(stop_event /\ ~stop_event') => \E iters \in Iters : async_run(iters)]_vars
    /\ [][\A iters \in Iters :
            async_run(iters) => (~stop_event' /\ min_iters' = iters)]_vars

\* a run has started with the flag cleared after a stop() in the run before
C14_Witness ==
    /\ last.op = "async_run" /\ last.was = "FORCED_STOP" /\ result = "FORCED_STOP"
    /\ stop_requested /\ ~stop_event /\ min_iters = 1 /\ run_pc = "gather"

\* C15: after_component_hook called with the stop-flag set marks the
\* component FORCED_STOP and changes nothing else: not the counter, not
\* another component, not the pipeline.
C15_StopFrame ==
    [][\A c \in Components :
          (after_component_hook(c) /\ stop_event) =>
              /\ comp_state'[c] = "FORCED_STOP"
              /\ counter' = counter
              /\ \A d \in Components \ {c} : comp_state'[d] = comp_state[d]
              /\ UNCHANGED <<nodes, resume_event, stop_event, state, min_iters>>
              /\ UNCHANGED <<comp_counter, stopping_iteration, pipeline_set>>]_vars

\* a component ahead of the counter was marked FORCED_STOP, counter untouched
C15_Witness ==
    \E c \in Components :
        /\ Launched(c) /\ stop_event
        /\ pc[c] = "done" /\ comp_state[c] = "FORCED_STOP"
        /\ comp_counter[c] > counter

\* C16: the counter never exceeds the largest count of a registered
\* component, and an after-hook call with the stop-flag unset leaves
\* counter = max(previous counter, count of the calling component).
C16_CounterIsMax ==
    /\ [](counter = 0 \/ \E c \in nodes : counter <= comp_counter[c])
    /\ [][\A c \in Components :
            (after_component_hook(c) /\ ~stop_event) =>
                /\ counter' >= comp_counter[c]
                /\ counter' = Max(counter, comp_counter[c])]_vars

\* an after-hook call has raised the counter to the count of its component
\* while the other component lags behind
C16_Witness ==
    \E c, d \in Components :
        /\ Launched(c) /\ ~stop_event /\ min_iters = 0
        /\ pc[c] = "before" /\ comp_state[c] = "RUNNING"
        /\ counter = comp_counter[c] /\ counter >= 2
        /\ d \in nodes /\ comp_counter[d] < counter

C18_PausedOnlyInHook ==
    /\ [][\A c \in Components :
            before_component_hook(c) =>
                /\ (comp_state'[c] = "PAUSED") <=> ~resume_event
                /\ pc'[c] = "work" => comp_state'[c] = "READY"]_vars
    /\ [](\A c \in Components :
            /\ comp_state[c] = "PAUSED" => pc[c] \in {"waiting", "woken"}
            /\ pc[c] = "work" => comp_state[c] = "READY")

\* one component is suspended in the hook in state PAUSED, the other has
\* returned from the hook READY after its own wait
C18_Witness ==
    \E c, d \in Components :
        /\ pc[c] = "waiting" /\ comp_state[c] = "PAUSED" /\ ~resume_event
        /\ pc[d] = "work" /\ comp_state[d] = "READY"

\* C19: whenever the pipeline state is PAUSED the resume-gate is closed, and
\* whenever it is RUNNING the resume-gate is open.
C19_StateMatchesGate ==
    /\ state = "PAUSED" => ~resume_event
    /\ state = "RUNNING" => resume_event

\* PAUSED with the gate closed after stop() and pause() in a run
C19_Witness ==
    /\ state = "PAUSED" /\ ~resume_event /\ stop_event
    /\ last.op = "pause" /\ last.was = "FORCED_STOP" /\ run_pc = "gather"

\* C20: whenever the pipeline state is FORCED_STOP the stop-flag is set, and
\* the step that clears the flag is an async_run call that leaves FORCED_STOP.
C20_ForcedStopHasFlag ==
    /\ [](state = "FORCED_STOP" => stop_event)
    /\ [][(stop_event /\ ~stop_event') =>
            (state' # "FORCED_STOP" /\ last'.op = "async_run" /\ last'.logged >= 1)]_vars

\* a run has returned FORCED_STOP and the flag is still set
C20_Witness ==
    /\ state = "FORCED_STOP" /\ stop_event
    /\ last.op = "return" /\ last.was = "FORCED_STOP" /\ result = "FORCED_STOP"

====
